---- MODULE Spec2Model ----
(***************************************************************************)
(* Model of circumcircle3.py: the circumcircle solver                      *)
(* (Circumcircle.get_circle_params), the drawing helpers (draw_line3d,     *)
(* draw_circle3d, CoordinateAxes.draw, Circumcircle.draw) and the frame    *)
(* loop (main, App.update, App.draw).                                      *)
(*                                                                         *)
(* Arithmetic.  Positions are integer vectors, and every derived quantity  *)
(* is kept exact:                                                          *)
(*   - a rational vector is [num |-> <<x, y, z>>, den |-> d], d > 0,       *)
(*     standing for num / d, reduced to lowest terms;                      *)
(*   - a vector with a scale is [v |-> <<x, y, z>>, d |-> m, q |-> k],     *)
(*     m, k > 0, standing for v / (m * sqrt(k)): a unit vector has d = 1   *)
(*     and q = v . v, a rational vector has q = 1;                         *)
(*   - a scalar with a scale is [num |-> n, d |-> m, q |-> k], standing    *)
(*     for n / (m * sqrt(k));                                              *)
(*   - a norm is [num |-> n, den |-> d], standing for sqrt(n / d);         *)
(*   - a point of the circle polyline is kept as the terms of the          *)
(*     expression center + radius * (cos(t) * orth1 + sin(t) * orth2).     *)
(* On these inputs the float64 operations of the source that decide a      *)
(* branch (differences, squares, cross product, the zero pivot of the      *)
(* linear solve) are exact; rounding of the remaining operations is not    *)
(* modelled.                                                               *)
(***************************************************************************)
EXTENDS Integers, Sequences, FiniteSets, TLC

\* ------------------------------------------------------------------ bounds
\* coordinates of the three points given to the solver: 0..MaxCoord
MaxCoord == 2
\* coordinates the input handler may give a point in the frame loop: 0..MaxDrag
MaxDrag == 1
\* components of the normal given to draw_circle3d: -MaxNormal..MaxNormal
MaxNormal == 2
\* n_points given to draw_circle3d: 1..MaxPoints
MaxPoints == 4

\* ------------------------------------------------------- program constants
NPoints == 20
FocalLength == 300
ScreenWidth == 1200
ScreenHeight == 900
TextOffsetX == 0
TextOffsetY == -15
LineWidth == 1
\* np.isclose(x, 0) is |x| <= atol = 1e-8, that is x^2 * AtolInv^2 <= 1
AtolInv == 100000000

\* ------------------------------------------------------------------ values
None == [tag |-> "None"]
LinAlgError == [tag |-> "LinAlgError"]
NaN == [tag |-> "NaN"]

Abs(x) == IF x < 0 THEN -x ELSE x

RECURSIVE Gcd(_, _)
Gcd(x, y) == IF y = 0 THEN Abs(x) ELSE Gcd(y, x % Abs(y))

Gcd3(u) == Gcd(Gcd(u[1], u[2]), u[3])

Sub(u, v) == <<u[1] - v[1], u[2] - v[2], u[3] - v[3]>>

Scale(k, u) == <<k * u[1], k * u[2], k * u[3]>>

Dot(u, v) == u[1] * v[1] + u[2] * v[2] + u[3] * v[3]

Cross(u, v) ==
    <<u[2] * v[3] - u[3] * v[2],
      u[3] * v[1] - u[1] * v[3],
      u[1] * v[2] - u[2] * v[1]>>

\* np.sum(u**2)
Norm2(u) == Dot(u, u)

\* an integer position as a rational vector
Pt(u) == [num |-> u, den |-> 1]

\* den * (p - u) for a rational vector p and an integer vector u
Offset(p, u) == Sub(p.num, Scale(p.den, u))

\* np.linalg.norm(p - u) for a rational vector p: sqrt(num / den), reduced
NormOff(p, u) ==
    LET n == Norm2(Offset(p, u))
        d == p.den * p.den
        g == Gcd(n, d)
    IN [num |-> n \div g, den |-> d \div g]

\* the vector sv.v / (sv.d * sqrt(sv.q)) with sv.v / sv.d in lowest terms
Lowest(sv) ==
    LET g == Gcd(Gcd3(sv.v), sv.d)
    IN [v |-> <<sv.v[1] \div g, sv.v[2] \div g, sv.v[3] \div g>>,
        d |-> sv.d \div g, q |-> sv.q]

\* a normalisation that leaves the vector as it is
NormalizeSkip(sv) == sv

\* x / np.linalg.norm(x) for x = sv.v / (sv.d * sqrt(sv.q)): the scale of x
\* cancels and leaves sv.v / sqrt(sv.v . sv.v), kept with sv.v in lowest
\* terms; a zero vector gives 0 / 0
Normalize(sv) ==
    LET g == Gcd3(sv.v)
    IN IF g = 0 THEN NaN
       ELSE [v |-> <<sv.v[1] \div g, sv.v[2] \div g, sv.v[3] \div g>>,
             d |-> 1,
             q |-> Norm2(sv.v) \div (g * g)]

\* ------------------------------------------------------------------ solver
Det(A) ==
      A[1][1] * (A[2][2] * A[3][3] - A[2][3] * A[3][2])
    - A[1][2] * (A[2][1] * A[3][3] - A[2][3] * A[3][1])
    + A[1][3] * (A[2][1] * A[3][2] - A[2][2] * A[3][1])

ReplaceCol(A, j, r) ==
    [i \in 1..3 |-> [k \in 1..3 |-> IF k = j THEN r[i] ELSE A[i][k]]]

\* the solution of A x = rnum / rden for a non-singular A, in lowest terms
Solution(A, rnum, rden) ==
    LET x == [j \in 1..3 |-> Det(ReplaceCol(A, j, rnum))]
        den == Det(A) * rden
        s == IF den < 0 THEN -1 ELSE 1
        g == Gcd(Gcd3(x), den)
    IN [num |-> <<(s * x[1]) \div g, (s * x[2]) \div g, (s * x[3]) \div g>>,
        den |-> (s * den) \div g]

\* a solver that answers a singular system with the zero vector
SolveNoRaise(A, rnum, rden) ==
    IF Det(A) = 0 THEN Pt(<<0, 0, 0>>) ELSE Solution(A, rnum, rden)

\* np.linalg.solve(A, rhs), rhs = rnum / rden: raises LinAlgError exactly
\* when A is singular
Solve(A, rnum, rden) ==
    IF Det(A) = 0 THEN LinAlgError ELSE Solution(A, rnum, rden)

\* a matrix whose third row repeats the first
CoefficientMatrixRepeat(a, b, c, normal) == <<Sub(b, a), Sub(c, b), Sub(b, a)>>

\* the matrix A, rows b - a, c - b, normal
CoefficientMatrix(a, b, c, normal) == <<Sub(b, a), Sub(c, b), normal>>

\* a right-hand side whose second entry pairs c with a
RightHandSidePair(a, b, c, normal) ==
    <<Norm2(b) - Norm2(a), Norm2(c) - Norm2(a), 2 * Dot(a, normal)>>

\* a right-hand side whose plane passes through the origin
RightHandSideOrigin(a, b, c, normal) ==
    <<Norm2(b) - Norm2(a), Norm2(c) - Norm2(b), 0>>

\* 2 * rhs: rhs = [0.5 (|b|^2 - |a|^2), 0.5 (|c|^2 - |b|^2), a . normal]
RightHandSide(a, b, c, normal) ==
    <<Norm2(b) - Norm2(a), Norm2(c) - Norm2(b), 2 * Dot(a, normal)>>

\* get_circle_params without its except clause: LinAlgError propagates
get_circle_params_uncaught(n) ==
    LET a == n[1]
        b == n[2]
        c == n[3]
        normal == Cross(Sub(b, a), Sub(c, a))
        A == CoefficientMatrix(a, b, c, normal)
        rhs2 == RightHandSide(a, b, c, normal)
        center == Solve(A, rhs2, 2)
    IN IF center = LinAlgError THEN LinAlgError
       ELSE [center |-> center,
             normal |-> Normalize([v |-> normal, d |-> 1, q |-> 1]),
             radius |-> NormOff(center, a)]

\* Circumcircle.get_circle_params on the positions n = <<a, b, c>>
get_circle_params(n) ==
    LET a == n[1]
        b == n[2]
        c == n[3]
        normal == Cross(Sub(b, a), Sub(c, a))
        A == CoefficientMatrix(a, b, c, normal)
        rhs2 == RightHandSide(a, b, c, normal)
        center == Solve(A, rhs2, 2)
    IN IF center = LinAlgError THEN None
       ELSE [center |-> center,
             normal |-> Normalize([v |-> normal, d |-> 1, q |-> 1]),
             radius |-> NormOff(center, a)]

\* ------------------------------------------------------------------ camera
\* Camera.world_to_screen is not part of circumcircle3.py; it is modelled
\* from its contract, with yaw and pitch in quarter turns.
CosQ(k) == CASE k % 4 = 0 -> 1 [] k % 4 = 1 -> 0 [] k % 4 = 2 -> -1 [] OTHER -> 0

SinQ(k) == CASE k % 4 = 0 -> 0 [] k % 4 = 1 -> 1 [] k % 4 = 2 -> 0 [] OTHER -> -1

\* the inverse of the yaw/pitch rotation applied to rel
ToCamera(cam, rel) ==
    LET cy == CosQ(cam.yaw)
        sy == SinQ(cam.yaw)
        cp == CosQ(cam.pitch)
        sp == SinQ(cam.pitch)
        y1 == <<cy * rel[1] - sy * rel[3], rel[2], sy * rel[1] + cy * rel[3]>>
    IN <<y1[1], cp * y1[2] + sp * y1[3], cp * y1[3] - sp * y1[2]>>

\* the fraction n / d, d > 0, in lowest terms
Frac(n, d) == LET g == Gcd(n, d) IN <<n \div g, d \div g>>

\* None when the point is behind or at the camera, else its 2D projection
world_to_screen(cam, p) ==
    LET c == ToCamera(cam, Offset(p, cam.position))
    IN IF c[3] <= 0 THEN None
       ELSE [x |-> Frac(FocalLength * c[1] + (ScreenWidth \div 2) * c[3], c[3]),
             y |-> Frac(FocalLength * c[2] + (ScreenHeight \div 2) * c[3], c[3])]

\* the poses the camera takes in the model
CameraPoses ==
    {[position |-> <<1, 1, -1>>, yaw |-> 0, pitch |-> 0],
     [position |-> <<1, 1, 1>>, yaw |-> 0, pitch |-> 0],
     [position |-> <<1, 1, 1>>, yaw |-> 1, pitch |-> 0],
     [position |-> <<1, 1, 1>>, yaw |-> 0, pitch |-> 1]}

\* the camera App.__init__ constructs, on the model's grid of poses
AppCamera == [position |-> <<1, 1, -1>>, yaw |-> 0, pitch |-> 0]

\* ---------------------------------------------------------------- drawing
\* a draw_line3d that draws when either endpoint has a projection
draw_line3d_either(cam, color, start, end, width) ==
    LET start2d == world_to_screen(cam, start)
        end2d == world_to_screen(cam, end)
    IN IF start2d # None \/ end2d # None
       THEN <<[op |-> "line", color |-> color, start |-> start2d,
               end |-> end2d, width |-> width]>>
       ELSE <<>>

\* draw_line3d: the pygame.draw.line commands it issues
draw_line3d(cam, color, start, end, width) ==
    LET start2d == world_to_screen(cam, start)
        end2d == world_to_screen(cam, end)
    IN IF start2d # None /\ end2d # None
       THEN <<[op |-> "line", color |-> color, start |-> start2d,
               end |-> end2d, width |-> width]>>
       ELSE <<>>

\* a call of draw_line3d, as the callers make it
Line3dCall(color, start, end, width) ==
    [op |-> "line3d", color |-> color, start |-> start, end |-> end,
     width |-> width]

\* a call of Node.draw (node.py is not part of circumcircle3.py)
NodeCall(position, color) ==
    [op |-> "node", position |-> position, color |-> color]

\* np.round(n / d), d > 0: to the nearest integer, ties to the even one
RoundHalfEven(f) ==
    LET fl == f[1] \div f[2]
        r == f[1] - fl * f[2]
    IN IF 2 * r < f[2] THEN fl
       ELSE IF 2 * r > f[2] THEN fl + 1
       ELSE IF fl % 2 = 0 THEN fl ELSE fl + 1

AxisEndpoints == <<<<1, 0, 0>>, <<0, 1, 0>>, <<0, 0, 1>>>>

AxisLabels == <<"x", "y", "z">>

\* one pass of the loop of CoordinateAxes.draw
AxisDraw(cam, i) ==
    LET endpoint3d == AxisEndpoints[i]
        endpoint2d == world_to_screen(cam, [num |-> Scale(11, endpoint3d), den |-> 10])
    IN <<Line3dCall("BLACK", Pt(<<0, 0, 0>>), Pt(endpoint3d), LineWidth)>>
       \o (IF endpoint2d # None
           THEN <<[op |-> "blit", label |-> AxisLabels[i], color |-> "BLACK",
                   position |-> <<RoundHalfEven(<<endpoint2d.x[1] + TextOffsetX * endpoint2d.x[2],
                                                  endpoint2d.x[2]>>),
                                  RoundHalfEven(<<endpoint2d.y[1] + TextOffsetY * endpoint2d.y[2],
                                                  endpoint2d.y[2]>>)>>]>>
           ELSE <<>>)

\* CoordinateAxes.draw
CoordinateAxes_draw(cam) == AxisDraw(cam, 1) \o AxisDraw(cam, 2) \o AxisDraw(cam, 3)

\* component i of normal
Component(normal, i) == [num |-> normal.v[i], d |-> normal.d, q |-> normal.q]

\* np.isclose(s, 0): |s| <= 1e-8, that is num^2 * AtolInv^2 <= d^2 * q
IsCloseZero(s) ==
    IF s.q = 1 THEN Abs(s.num) <= s.d \div AtolInv
    ELSE s.num * s.num <= ((s.d * s.d * s.q) \div AtolInv) \div AtolInv

\* an orth1 whose last branch has no factor -2
circle_orth1_plain(normal) ==
    LET n1 == Component(normal, 1)
        n2 == Component(normal, 2)
        n3 == Component(normal, 3)
    IN Normalize(
         IF IsCloseZero(n1) THEN [v |-> <<1, 0, 0>>, d |-> 1, q |-> 1]
         ELSE IF IsCloseZero(n2) THEN [v |-> <<0, 1, 0>>, d |-> 1, q |-> 1]
         ELSE IF IsCloseZero(n3) THEN [v |-> <<0, 0, 1>>, d |-> 1, q |-> 1]
         ELSE [v |-> <<n2.num * n3.num, n1.num * n3.num, n1.num * n2.num>>,
               d |-> normal.d * normal.d * normal.q, q |-> 1])

\* draw_circle3d: orth1 after its normalisation
circle_orth1(normal) ==
    LET n1 == Component(normal, 1)
        n2 == Component(normal, 2)
        n3 == Component(normal, 3)
    IN Normalize(
         IF IsCloseZero(n1) THEN [v |-> <<1, 0, 0>>, d |-> 1, q |-> 1]
         ELSE IF IsCloseZero(n2) THEN [v |-> <<0, 1, 0>>, d |-> 1, q |-> 1]
         ELSE IF IsCloseZero(n3) THEN [v |-> <<0, 0, 1>>, d |-> 1, q |-> 1]
         ELSE [v |-> <<n2.num * n3.num, -2 * n1.num * n3.num, n1.num * n2.num>>,
               d |-> normal.d * normal.d * normal.q, q |-> 1])

\* draw_circle3d: orth2 = np.cross(normal, orth1)
circle_orth2(normal, orth1) ==
    Lowest([v |-> Cross(normal.v, orth1.v), d |-> normal.d * orth1.d,
            q |-> normal.q * orth1.q])

\* np.linspace(0, 2 * np.pi, num): angle i is the fraction (i - 1) / (num - 1)
\* of a full turn, kept as <<i - 1, num - 1>>
linspace(num) ==
    [i \in 1..num |-> IF num = 1 THEN <<0, 1>> ELSE <<i - 1, num - 1>>]

\* angles without the closing sample
circle_angles_open(n_points) == linspace(n_points)

\* draw_circle3d: angles
circle_angles(n_points) == linspace(n_points + 1)

\* the pair (cos(t), sin(t)) of the angle t = <<k, n>>: it is the same for two
\* angles exactly when they differ by full turns, and is kept as the fraction
\* of a turn (k mod n) / n in lowest terms
CosSin(t) ==
    LET r == t[1] % t[2]
        g == Gcd(r, t[2])
    IN <<r \div g, t[2] \div g>>

\* center + radius * (cos(t) * orth1 + sin(t) * orth2)
CirclePoint(center, radius, orth1, orth2, t) ==
    [center |-> center, radius |-> radius, orth1 |-> orth1, orth2 |-> orth2,
     cossin |-> CosSin(t)]

\* draw_circle3d: zip(starts, ends)
circle_segments(center, radius, orth1, orth2, angles) ==
    [i \in 1..(Len(angles) - 1) |->
        [start |-> CirclePoint(center, radius, orth1, orth2, angles[i]),
         end |-> CirclePoint(center, radius, orth1, orth2, angles[i + 1])]]

\* draw_circle3d: the calls of draw_line3d it makes, in order
circle_lines(color, segments, width) ==
    [i \in 1..Len(segments) |->
        Line3dCall(color, segments[i].start, segments[i].end, width)]

\* draw_circle3d
draw_circle3d(color, center, normal, radius, n_points, width) ==
    LET orth1 == circle_orth1(normal)
        orth2 == circle_orth2(normal, orth1)
    IN circle_lines(color,
                    circle_segments(center, radius, orth1, orth2, circle_angles(n_points)),
                    width)

\* a Circumcircle that keeps the positions it was constructed with
CircumcircleNodesCopy(n) == <<<<0, 0, 0>>, <<0, 1, 1>>, <<1, 0, 0>>>>

\* Circumcircle.nodes: self.nodes = nodes, the list App and InputManager hold,
\* so it reads the positions as they are now
CircumcircleNodes(n) == n

\* Circumcircle.draw, given what its call of get_circle_params gave: an
\* exception raised there ends draw after the three nodes
Circumcircle_draw(n, result) ==
    [i \in 1..3 |-> NodeCall(Pt(n[i]), "default")]
    \o (IF result # None /\ result # LinAlgError
        THEN <<NodeCall(result.center, "RED")>>
             \o draw_circle3d("RED", result.center, result.normal, result.radius,
                              NPoints, LineWidth)
        ELSE <<>>)

\* ------------------------------------------------------------------- state
\* nodes:  the positions of the three Node objects
\* camera: the pose of the camera
\* pc:     the position in main's loop, or in the function a specification
\*         applies
\* params: what get_circle_params returned in this frame (or call)
\* calls:  the drawing calls made in this frame (or call), in order
\* args:   the arguments of the function a specification applies
\* locals: the locals of draw_circle3d (orth1, orth2, angles)
VARIABLES nodes, camera, pc, params, calls, args, locals

vars == <<nodes, camera, pc, params, calls, args, locals>>

Coords == 0..MaxCoord

Vector == Coords \X Coords \X Coords

DragCoords == 0..MaxDrag

DragVector == DragCoords \X DragCoords \X DragCoords

\* App.__init__: the three nodes
InitNodes == <<<<0, 0, 0>>, <<0, 1, 1>>, <<1, 0, 0>>>>

\* --------------------------------------------------------- the frame loop
\* App.__init__, and main up to its loop
Init ==
    /\ nodes = InitNodes
    /\ camera = AppCamera
    /\ pc = "update"
    /\ params = None
    /\ calls = <<>>
    /\ args = None
    /\ locals = None

\* App.update, an event InputManager.handle_event answers by overwriting the
\* position of a node (input.py is not part of circumcircle3.py)
handle_event_node ==
    /\ pc = "update"
    /\ \E i \in 1..3, p \in DragVector : nodes' = [nodes EXCEPT ![i] = p]
    /\ UNCHANGED <<camera, pc, params, calls, args, locals>>

\* App.update, an event InputManager.handle_event answers by moving the camera
handle_event_camera ==
    /\ pc = "update"
    /\ \E c \in CameraPoses : camera' = c
    /\ UNCHANGED <<nodes, pc, params, calls, args, locals>>

\* App.update returns False on pygame.QUIT, and main leaves its loop
update_quit ==
    /\ pc = "update"
    /\ pc' = "done"
    /\ UNCHANGED <<nodes, camera, params, calls, args, locals>>

\* App.update returns True with the event queue empty; clock.tick
update_return ==
    /\ pc = "update"
    /\ pc' = "draw"
    /\ UNCHANGED <<nodes, camera, params, calls, args, locals>>

\* App.draw: screen.fill, CoordinateAxes.draw, Circumcircle.draw; an exception
\* get_circle_params lets through ends the program
App_draw ==
    /\ pc = "draw"
    /\ LET n == CircumcircleNodes(nodes)
           result == get_circle_params(n)
       IN /\ params' = result
          /\ calls' = <<[op |-> "fill", color |-> "WHITE"]>>
                      \o CoordinateAxes_draw(camera)
                      \o Circumcircle_draw(n, result)
          /\ pc' = IF result = LinAlgError THEN "crashed" ELSE "flip"
    /\ UNCHANGED <<nodes, camera, args, locals>>

\* pygame.display.flip, and the next pass of main's loop: the frame's calls
\* and the local params of Circumcircle.draw are gone
flip ==
    /\ pc = "flip"
    /\ pc' = "update"
    /\ params' = None
    /\ calls' = <<>>
    /\ UNCHANGED <<nodes, camera, args, locals>>

Next ==
    \/ handle_event_node
    \/ handle_event_camera
    \/ update_quit
    \/ update_return
    \/ App_draw
    \/ flip

Spec == Init /\ [][Next]_vars

\* ------------------------------------------- get_circle_params on its own
InitSolve ==
    /\ nodes \in Vector \X Vector \X Vector
    /\ camera = AppCamera
    /\ pc = "solve_call"
    /\ params = None
    /\ calls = <<>>
    /\ args = None
    /\ locals = None

get_circle_params_call ==
    /\ pc = "solve_call"
    /\ params' = get_circle_params(nodes)
    /\ pc' = "solve_returned"
    /\ UNCHANGED <<nodes, camera, calls, args, locals>>

NextSolve == get_circle_params_call

SpecSolve == InitSolve /\ [][NextSolve]_vars

\* ----------------------------------------------- draw_circle3d on its own
\* the unit normals v / |v| with v in the grid -MaxNormal..MaxNormal
UnitNormals ==
    {Normalize([v |-> v, d |-> 1, q |-> 1]) :
        v \in ((-MaxNormal..MaxNormal) \X (-MaxNormal..MaxNormal)
               \X (-MaxNormal..MaxNormal)) \ {<<0, 0, 0>>}}

\* normals with a component that is not zero and within the tolerance of
\* np.isclose (components that are multiples of 1 / (10 * AtolInv) = 1e-9),
\* and normals with a component at the tolerance and just above it
TinyNormals ==
    LET D == 10 * AtolInv
    IN {[v |-> v, d |-> D, q |-> 1] :
           v \in {<<1, D, D>>, <<-1, D, 0>>, <<10, 0, -D>>, <<D, 1, D>>,
                  <<-D, 10, 0>>, <<D, D, 1>>, <<D, -D, -10>>, <<1, 1, D>>,
                  <<1, 0, 0>>, <<-10, 0, 0>>}}
       \cup {[v |-> v, d |-> AtolInv, q |-> 1] :
                 v \in {<<1, AtolInv, 0>>, <<2, AtolInv, 0>>, <<0, -1, AtolInv>>,
                        <<AtolInv, 0, 2>>}}

\* the circles given to draw_circle3d: center and radius
Circles ==
    {[center |-> Pt(<<0, 0, 0>>), radius |-> [num |-> 1, den |-> 1]],
     [center |-> [num |-> <<1, 1, 1>>, den |-> 2], radius |-> [num |-> 3, den |-> 4]]}

InitCircle ==
    /\ nodes = InitNodes
    /\ camera = AppCamera
    /\ pc = "circle_call"
    /\ params = None
    /\ calls = <<>>
    /\ \E k \in Circles, n \in UnitNormals \cup TinyNormals, np \in 1..MaxPoints :
          args = [center |-> k.center, normal |-> n, radius |-> k.radius,
                  n_points |-> np]
    /\ locals = None

\* draw_circle3d up to orth2 = np.cross(normal, orth1)
draw_circle3d_basis ==
    /\ pc = "circle_call"
    /\ LET orth1 == circle_orth1(args.normal)
       IN locals' = [orth1 |-> orth1, orth2 |-> circle_orth2(args.normal, orth1),
                     angles |-> <<>>]
    /\ pc' = "circle_basis"
    /\ UNCHANGED <<nodes, camera, params, calls, args>>

\* draw_circle3d from angles = np.linspace(...) to its end
draw_circle3d_lines ==
    /\ pc = "circle_basis"
    /\ LET angles == circle_angles(args.n_points)
       IN /\ locals' = [locals EXCEPT !.angles = angles]
          /\ calls' = circle_lines("RED",
                                   circle_segments(args.center, args.radius, locals.orth1,
                                                   locals.orth2, angles),
                                   LineWidth)
    /\ pc' = "circle_returned"
    /\ UNCHANGED <<nodes, camera, params, args>>

NextCircle == draw_circle3d_basis \/ draw_circle3d_lines

SpecCircle == InitCircle /\ [][NextCircle]_vars

\* ------------------------------------------------- draw_line3d on its own
InitLine ==
    /\ nodes = InitNodes
    /\ camera \in CameraPoses
    /\ pc = "line_call"
    /\ params = None
    /\ calls = <<>>
    /\ \E s \in Vector, e \in Vector : args = [start |-> Pt(s), end |-> Pt(e)]
    /\ locals = None

draw_line3d_call ==
    /\ pc = "line_call"
    /\ calls' = draw_line3d(camera, "BLACK", args.start, args.end, LineWidth)
    /\ pc' = "line_returned"
    /\ UNCHANGED <<nodes, camera, params, args, locals>>

NextLine == draw_line3d_call

SpecLine == InitLine /\ [][NextLine]_vars

\* ------------------------------------------------------------------ claims
\* the three positions lie on one line (two equal positions included): some
\* p, q, not both 0, give p (b - a) = q (c - a)
Collinear(n) ==
    \E p \in -MaxCoord..MaxCoord, q \in -MaxCoord..MaxCoord :
        /\ <<p, q>> # <<0, 0>>
        /\ Scale(p, Sub(n[2], n[1])) = Scale(q, Sub(n[3], n[1]))

\* C1: for three non-collinear points get_circle_params returns a circle
\* whose center is at the same distance from a, b and c, and whose radius is
\* that distance.
C1_CenterEquidistant ==
    (pc = "solve_returned" /\ ~Collinear(nodes)) =>
        /\ params # None
        /\ NormOff(params.center, nodes[1]) = NormOff(params.center, nodes[2])
        /\ NormOff(params.center, nodes[2]) = NormOff(params.center, nodes[3])
        /\ params.radius = NormOff(params.center, nodes[3])

C1_Witness ==
    /\ pc = "solve_returned"
    /\ ~Collinear(nodes)
    /\ params # None
    /\ params.center.den > 1
    /\ params.radius.num > params.radius.den

\* C2: for three collinear points, two equal points included,
\* get_circle_params returns None and no circle.
C2_CollinearGivesNone ==
    (pc = "solve_returned" /\ Collinear(nodes)) => params = None

C2_Witness ==
    /\ pc = "solve_returned"
    /\ Collinear(nodes)
    /\ nodes[1] # nodes[2] /\ nodes[2] # nodes[3] /\ nodes[1] # nodes[3]
    /\ params = None

\* C3: the normal of a returned circle has length 1 and is orthogonal to
\* b - a and to c - a.
C3_NormalUnitOrthogonal ==
    (pc = "solve_returned" /\ params # None) =>
        /\ params.normal # NaN
        /\ params.normal.d = 1
        /\ Norm2(params.normal.v) = params.normal.q
        /\ Dot(params.normal.v, Sub(nodes[2], nodes[1])) = 0
        /\ Dot(params.normal.v, Sub(nodes[3], nodes[1])) = 0

C3_Witness ==
    /\ pc = "solve_returned"
    /\ params # None
    /\ Norm2(Cross(Sub(nodes[2], nodes[1]), Sub(nodes[3], nodes[1]))) > 1
    /\ params.normal.q > 1

\* C4: the center of a returned circle lies in the plane through a, b and c:
\* center - a is orthogonal to the returned normal.
C4_CenterInPlane ==
    (pc = "solve_returned" /\ params # None) =>
        /\ params.normal # NaN
        /\ Dot(Offset(params.center, nodes[1]), params.normal.v) = 0

C4_Witness ==
    /\ pc = "solve_returned"
    /\ params # None
    /\ Dot(nodes[1], params.normal.v) # 0
    /\ params.center.num # <<0, 0, 0>>

\* C5: draw_line3d issues a line command exactly when world_to_screen gives
\* a projection for both endpoints, and then the one line between the two
\* projections; otherwise it issues nothing.
C5_LineIffBothProjected ==
    pc = "line_returned" =>
        LET start2d == world_to_screen(camera, args.start)
            end2d == world_to_screen(camera, args.end)
        IN IF start2d # None /\ end2d # None
           THEN calls = <<[op |-> "line", color |-> "BLACK", start |-> start2d,
                           end |-> end2d, width |-> LineWidth]>>
           ELSE calls = <<>>

C5_Witness ==
    /\ pc = "line_returned"
    /\ world_to_screen(camera, args.start) # None
    /\ world_to_screen(camera, args.end) = None
    /\ calls = <<>>

\* the calls of the frame that satisfy P
CallsWith(P(_)) == {k \in 1..Len(calls) : P(calls[k])}

IsCenterMarker(call) == call.op = "node" /\ call.color = "RED"

IsCircleLine(call) == call.op = "line3d" /\ call.color = "RED"

\* C6: every frame requests the three axes and the three nodes at their
\* positions; it requests the center marker and the NPoints lines of the
\* circle exactly when get_circle_params returned a circle, and a degenerate
\* configuration ends the frame normally.
C6_FrameRequests ==
    /\ pc # "crashed"
    /\ pc = "flip" =>
        /\ \A i \in 1..3 :
              \E k \in 1..Len(calls) :
                 calls[k] = Line3dCall("BLACK", Pt(<<0, 0, 0>>), Pt(AxisEndpoints[i]),
                                       LineWidth)
        /\ \A i \in 1..3 :
              \E k \in 1..Len(calls) : calls[k] = NodeCall(Pt(nodes[i]), "default")
        /\ IF params # None
           THEN /\ Cardinality(CallsWith(IsCenterMarker)) = 1
                /\ Cardinality(CallsWith(IsCircleLine)) = NPoints
           ELSE /\ CallsWith(IsCenterMarker) = {}
                /\ CallsWith(IsCircleLine) = {}

C6_Witness ==
    /\ pc = "flip"
    /\ nodes # InitNodes
    /\ params = None
    /\ Len(calls) >= 7

\* C7: the circle parameters a frame uses are the solver's result for the
\* positions of that frame, whatever the input handler wrote before, and
\* drawing leaves the positions as they are.
C7_FrameUsesCurrentPositions ==
    [][pc = "draw" => (nodes' = nodes /\ params' = get_circle_params(nodes'))]_vars

C7_Witness ==
    /\ pc = "flip"
    /\ nodes # InitNodes
    /\ params # None
    /\ params # get_circle_params(InitNodes)

\* C8: get_circle_params returns None exactly when (b - a) x (c - a) is the
\* zero vector, which is exactly when the coefficient matrix is singular; a
\* returned circle has a finite center, a normal that was divided by a
\* non-zero norm, and a finite radius.
C8_NoneIffZeroNormal ==
    pc = "solve_returned" =>
        LET normal == Cross(Sub(nodes[2], nodes[1]), Sub(nodes[3], nodes[1]))
        IN /\ params = None <=> normal = <<0, 0, 0>>
           /\ Det(CoefficientMatrix(nodes[1], nodes[2], nodes[3], normal)) = 0
                 <=> normal = <<0, 0, 0>>
           /\ params # None =>
                 /\ params.center.den > 0
                 /\ params.normal # NaN
                 /\ params.normal.q > 0
                 /\ params.radius.den > 0

C8_Witness ==
    /\ pc = "solve_returned"
    /\ nodes[1] = nodes[2]
    /\ nodes[3] # nodes[1]
    /\ params = None

\* some component of normal is not within the tolerance of np.isclose
HasLargeComponent(normal) == \E i \in 1..3 : ~IsCloseZero(Component(normal, i))

\* normal . orth1, for normal and orth1 with their scales
DotNormalOrth1 ==
    [num |-> Dot(args.normal.v, locals.orth1.v), d |-> args.normal.d * locals.orth1.d,
     q |-> args.normal.q * locals.orth1.q]

C10_ClosedPolyline ==
    pc = "circle_returned" =>
        LET n == args.n_points
            at(t) == CirclePoint(args.center, args.radius, locals.orth1, locals.orth2, t)
        IN /\ Len(calls) = n
           /\ Len(locals.angles) = n + 1
           /\ \A i \in 1..n :
                 /\ calls[i].op = "line3d"
                 /\ calls[i].start = at(locals.angles[i])
                 /\ calls[i].end = at(locals.angles[i + 1])
                 /\ locals.angles[i][1] * locals.angles[i + 1][2]
                       < locals.angles[i + 1][1] * locals.angles[i][2]
           /\ \A i \in 1..(n - 1) : calls[i].end = calls[i + 1].start
           /\ calls[n].end = calls[1].start

C10_Witness ==
    /\ pc = "circle_returned"
    /\ args.n_points >= 3
    /\ Len(calls) = args.n_points
    /\ calls[1].start # calls[2].start

====
